---- MODULE Spec2Model ----
(***************************************************************************)
(* PKCS #11 PAL for the Infineon OPTIGA Trust X                           *)
(* (lib/pkcs11/portable/infineon/optiga_trust_x/aws_pkcs11_pal.c).         *)
(*                                                                         *)
(* The four PAL entry points are modelled as actions over the content of   *)
(* the secure element's data objects and the FreeRTOS heap.  Every state   *)
(* records the last PAL call (its arguments, its results and the device    *)
(* commands it issued) in the variable last.                               *)
(***************************************************************************)
EXTENDS Integers, Sequences, FiniteSets

VARIABLES
    cfg,          \* the four pkcs11configLABEL_* string literals of the build
    slots,        \* content of the secure element's data objects, by OID
    heap,         \* addresses pvPortMalloc has handed out and not got back
    known,        \* addresses GetObjectValue has returned to the caller
    last          \* the last PAL call

vars == <<cfg, slots, heap, known, last>>

----------------------------------------------------------------------------
(* Bounds of the model. *)

\* number of heap blocks pvPortMalloc can hand out at the same time
MaxBufs == 1

----------------------------------------------------------------------------
(* Program constants. *)

pkcs11OBJECT_CERTIFICATE_MAX_SIZE == 2048

READ_BUFFER_SIZE == 1200

USHRT_MAX == 65535

LONG_MAX == 2147483647

LONG_MIN == -LONG_MAX - 1

eInvalidHandle == 0

eAwsDevicePrivateKey == 1

eAwsDevicePublicKey == 2

eAwsDeviceCertificate == 3

eAwsCodeSigningKey == 4

CKR_OK == "CKR_OK"

CKR_KEY_HANDLE_INVALID == "CKR_KEY_HANDLE_INVALID"

CK_FALSE == FALSE

OPTIGA_LIB_SUCCESS == "OPTIGA_LIB_SUCCESS"

OPTIGA_LIB_ERROR == "OPTIGA_LIB_ERROR"

OPTIGA_UTIL_ERASE_AND_WRITE == "OPTIGA_UTIL_ERASE_AND_WRITE"

NULL == 0

\* the terminating byte of a C string literal
NUL == "NUL"

----------------------------------------------------------------------------
(* C library: strtol( s, &end, 16 ) and the conversion to uint16_t. *)

Min(a, b) == IF a < b THEN a ELSE b

HexDigits == {"0","1","2","3","4","5","6","7","8","9",
              "a","b","c","d","e","f","A","B","C","D","E","F"}

HexVal(c) ==
    CASE c = "0" -> 0 [] c = "1" -> 1 [] c = "2" -> 2 [] c = "3" -> 3
      [] c = "4" -> 4 [] c = "5" -> 5 [] c = "6" -> 6 [] c = "7" -> 7
      [] c = "8" -> 8 [] c = "9" -> 9
      [] c \in {"a", "A"} -> 10 [] c \in {"b", "B"} -> 11
      [] c \in {"c", "C"} -> 12 [] c \in {"d", "D"} -> 13
      [] c \in {"e", "E"} -> 14 [] c \in {"f", "F"} -> 15

\* s without its first n characters
Drop(s, n) == SubSeq(s, n + 1, Len(s))

RECURSIVE SkipSpace(_)
SkipSpace(s) ==
    IF s # <<>> /\ s[1] = " " THEN SkipSpace(Tail(s)) ELSE s

\* The hex digits at the head of s accumulated on acc, towards LONG_MIN
\* when neg and towards LONG_MAX otherwise; the result saturates there.
RECURSIVE HexDigitsValue(_, _, _)
HexDigitsValue(s, acc, neg) ==
    IF s = <<>> \/ s[1] \notin HexDigits
    THEN acc
    ELSE LET v == HexVal(s[1])
             q == LONG_MAX \div 16
         IN  IF neg
             THEN HexDigitsValue(Tail(s),
                                 IF acc < -(q + 1) \/ (acc = -(q + 1) /\ v > 0)
                                 THEN LONG_MIN ELSE acc * 16 - v,
                                 neg)
             ELSE HexDigitsValue(Tail(s),
                                 IF acc > q THEN LONG_MAX ELSE acc * 16 + v,
                                 neg)

\* "0x" or "0X" is a prefix only when a hex digit follows it
HasHexPrefix(s) ==
    /\ Len(s) >= 3
    /\ s[1] = "0"
    /\ s[2] \in {"x", "X"}
    /\ s[3] \in HexDigits

Strtol16(str) ==
    LET s1   == SkipSpace(str)
        neg  == s1 # <<>> /\ s1[1] = "-"
        s2   == IF s1 # <<>> /\ s1[1] \in {"-", "+"} THEN Tail(s1) ELSE s1
        s3   == IF HasHexPrefix(s2) THEN Drop(s2, 2) ELSE s2
    IN  HexDigitsValue(s3, 0, neg)

\* ( uint16_t ) of a long
ToUint16(n) == n % (USHRT_MAX + 1)

----------------------------------------------------------------------------
(* The label configuration (aws_pkcs11_config.h is not part of the file;  *)
(* the labels are string literals whose text is parsed as the OID).        *)

Str_0xE0E8 == <<"0", "x", "E", "0", "E", "8">>
Str_0xE0F0 == <<"0", "x", "E", "0", "F", "0">>
Str_0xF1D0 == <<"0", "x", "F", "1", "D", "0">>
Str_0xE0EF == <<"0", "x", "E", "0", "E", "F">>
Str_FFFF   == <<"F", "F", "F", "F">>
Str_0xFFFE == <<"0", "x", "F", "F", "F", "E">>
Str_0      == <<"0">>
Str_0x     == <<"0", "x">>
Str_key    == <<"k", "e", "y">>
Str_10000  == <<"1", "0", "0", "0", "0">>
Str_big    == <<"8", "0", "0", "0", "0", "0", "0", "0", "0">>
Str_neg1   == <<"-", "1">>
Str_neg2   == <<" ", "-", "0", "x", "2">>

MkConfig(cert, priv, pub, code) ==
    [cert |-> cert, priv |-> priv, pub |-> pub, code |-> code]

\* Each of the three writable labels takes an OID of every class: in range,
\* USHRT_MAX, zero, not a number, above USHRT_MAX, negative.
Configs ==
    { MkConfig(Str_0xE0E8, Str_0xE0F0, Str_0xF1D0, Str_0xE0EF),
      MkConfig(Str_FFFF,   Str_0xE0F0, Str_0,      Str_10000),
      MkConfig(Str_0x,     Str_0xE0F0, Str_big,    Str_FFFF),
      MkConfig(Str_10000,  Str_0xE0F0, Str_FFFF,   Str_neg1),
      MkConfig(Str_neg1,   Str_0xE0F0, Str_key ,   Str_0),
      MkConfig(Str_0xFFFE, Str_key ,   Str_neg2,   Str_0xE0E8) }

\* the bytes of a string literal: sizeof counts the terminating NUL
LabelBytes(str) == Append(str, NUL)

SizeofLabel(str) == Len(str) + 1

\* the string literals of the configurations
ConfiguredLabels == UNION { {c.cert, c.priv, c.pub, c.code} : c \in Configs }

\* strtol( label, &xEnd, 16 ) of each configured label
LabelOid == [str \in ConfiguredLabels |-> Strtol16(str)]

\* the OIDs the configurations can address
SlotIds == { ToUint16(LabelOid[str]) : str \in ConfiguredLabels }

----------------------------------------------------------------------------
(* Object payloads: len bytes, each equal to fill.  fill = -1 stands for   *)
(* indeterminate content (memory that was allocated and never written).    *)

Payload(len, fill) == [len |-> len, fill |-> fill]

NoData == Payload(0, 0)

Indeterminate(len) == Payload(len, -1)

\* the first n bytes of d
Take(d, n) == IF d.len <= n THEN d ELSE Payload(n, d.fill)

\* The payloads a caller saves: two of the size of the read buffer that
\* differ in their bytes, one of the largest size SaveObject accepts and one
\* of the first size it refuses.
Payloads ==
    { Payload(READ_BUFFER_SIZE, 17),
      Payload(READ_BUFFER_SIZE, 42),
      Payload(pkcs11OBJECT_CERTIFICATE_MAX_SIZE, 17),
      Payload(pkcs11OBJECT_CERTIFICATE_MAX_SIZE + 1, 42) }

DeviceStatuses == {OPTIGA_LIB_SUCCESS, OPTIGA_LIB_ERROR}

----------------------------------------------------------------------------
(* memcmp and the chain of label comparisons shared by SaveObject and      *)
(* FindObject.                                                             *)

\* The results memcmp( buf, ref, n ) can have: 0 (equal) or 1 (different).
\* ref holds n bytes.  When buf holds fewer than n bytes and agrees with ref
\* as far as it goes, the call reads past the end of buf and the result
\* depends on what lies there.
Memcmp(buf, ref, n) ==
    LET common == Min(Len(buf), n)
    IN  IF \E i \in 1..common : buf[i] # ref[i] THEN {1}
        ELSE IF Len(buf) >= n THEN {0}
        ELSE {0, 1}

\* the comparison of the caller's label with one configured label
LabelCmp(buf, str) == Memcmp(buf, LabelBytes(str), SizeofLabel(str))

\* The branches the if / else-if chain can take for the caller's label:
\* a branch is taken when its memcmp gives 0 and all before it gave nonzero.
LabelBranches(buf) ==
    LET c1 == LabelCmp(buf, cfg.cert)
        c2 == LabelCmp(buf, cfg.priv)
        c3 == LabelCmp(buf, cfg.pub)
        c4 == LabelCmp(buf, cfg.code)
    IN  {b \in {"cert", "priv", "pub", "code", "none"} :
            \/ b = "cert" /\ 0 \in c1
            \/ b = "priv" /\ 1 \in c1 /\ 0 \in c2
            \/ b = "pub"  /\ 1 \in c1 /\ 1 \in c2 /\ 0 \in c3
            \/ b = "code" /\ 1 \in c1 /\ 1 \in c2 /\ 1 \in c3 /\ 0 \in c4
            \/ b = "none" /\ 1 \in c1 /\ 1 \in c2 /\ 1 \in c3 /\ 1 \in c4}

----------------------------------------------------------------------------
(* The secure element (optiga_util_write_data, optiga_util_read_data).     *)

WriteCmd(oid, mode, offset, data, st) ==
    [kind |-> "write", oid |-> oid, mode |-> mode, offset |-> offset,
     data |-> data, len |-> data.len, status |-> st]

ReadCmd(oid, offset, len, data, st) ==
    [kind |-> "read", oid |-> oid, mode |-> "", offset |-> offset,
     data |-> data, len |-> len, status |-> st]

\* erase-and-write at offset 0 replaces the object's content
OptigaWriteData(sl, oid, data, st) ==
    IF st = OPTIGA_LIB_SUCCESS THEN [sl EXCEPT ![oid] = data] ELSE sl

\* a read of at most len bytes from offset 0: the bytes and their number
OptigaReadData(sl, oid, len) == Take(sl[oid], len)

----------------------------------------------------------------------------
(* The record of a PAL call. *)

NoCall ==
    [op |-> "none", label |-> <<>>, length |-> 0, data |-> NoData,
     handle |-> eInvalidHandle, ret |-> eInvalidHandle, cmds |-> <<>>,
     ptr |-> NULL, size |-> 0, isPrivate |-> CK_FALSE, out |-> NoData,
     alloc |-> NULL, heapBefore |-> {}, badFree |-> FALSE]

----------------------------------------------------------------------------
(* PKCS11_PAL_SaveObject *)

\* faulty variant of SaveSizeAccepted: the comparison made strict
SaveSizeAccepted_Strict(ulDataSize) == ulDataSize < pkcs11OBJECT_CERTIFICATE_MAX_SIZE

\* if( ulDataSize <= pkcs11OBJECT_CERTIFICATE_MAX_SIZE )
SaveSizeAccepted(ulDataSize) == ulDataSize <= pkcs11OBJECT_CERTIFICATE_MAX_SIZE

\* the condition guarding the write of the certificate
CertOidAccepted(lOptigaOid, ulDataSize) ==
    /\ 0 # lOptigaOid
    /\ USHRT_MAX > lOptigaOid
    /\ USHRT_MAX > ulDataSize

\* the condition guarding the write of the public key
PubKeyOidAccepted(lOptigaOid, ulDataSize) ==
    /\ 0 # lOptigaOid
    /\ USHRT_MAX >= lOptigaOid
    /\ USHRT_MAX >= ulDataSize

\* the condition guarding the write of the code verification key
CodeKeyOidAccepted(lOptigaOid, ulDataSize) ==
    /\ 0 # lOptigaOid
    /\ USHRT_MAX > lOptigaOid
    /\ USHRT_MAX > ulDataSize

SaveResult(xHandle, cmds, sl) == [handle |-> xHandle, cmds |-> cmds, slots |-> sl]

\* bOffset = 0
SaveOffset == 0

\* faulty variant of SaveWrite: the handle is assigned whatever the write returned
SaveWrite_IgnoreStatus(lOptigaOid, pucData, xHandle) ==
    LET oid == ToUint16(lOptigaOid)
    IN  { SaveResult(xHandle,
                     <<WriteCmd(oid, OPTIGA_UTIL_ERASE_AND_WRITE, SaveOffset,
                                pucData, xReturn)>>,
                     OptigaWriteData(slots, oid, pucData, xReturn))
          : xReturn \in DeviceStatuses }

\* optiga_util_write_data( ( uint16_t ) lOptigaOid, OPTIGA_UTIL_ERASE_AND_WRITE,
\*                         bOffset, pucData, ulDataSize )
\* and the handle assigned when it returns OPTIGA_LIB_SUCCESS, for each status
\* xReturn the device can answer with
SaveWrite(lOptigaOid, pucData, xHandle) ==
    LET oid == ToUint16(lOptigaOid)
    IN  { SaveResult(IF OPTIGA_LIB_SUCCESS = xReturn THEN xHandle ELSE eInvalidHandle,
                     <<WriteCmd(oid, OPTIGA_UTIL_ERASE_AND_WRITE, SaveOffset,
                                pucData, xReturn)>>,
                     OptigaWriteData(slots, oid, pucData, xReturn))
          : xReturn \in DeviceStatuses }

\* xHandle is returned as it stands and nothing is written
SaveNoWrite(xHandle) == { SaveResult(xHandle, <<>>, slots) }

\* the branch of the certificate label
SaveCertificate(pucData) ==
    LET lOptigaOid == LabelOid[cfg.cert]
    IN  IF CertOidAccepted(lOptigaOid, pucData.len)
        THEN SaveWrite(lOptigaOid, pucData, eAwsDeviceCertificate)
        ELSE SaveNoWrite(eInvalidHandle)

\* the branch of the private key label: a handle and no write
SavePrivateKey == SaveNoWrite(eAwsDevicePrivateKey)

\* the branch of the public key label
SavePublicKey(pucData) ==
    LET lOptigaOid == LabelOid[cfg.pub]
    IN  IF PubKeyOidAccepted(lOptigaOid, pucData.len)
        THEN SaveWrite(lOptigaOid, pucData, eAwsDevicePublicKey)
        ELSE SaveNoWrite(eInvalidHandle)

\* the branch of the code verification key label
SaveCodeKey(pucData) ==
    LET lOptigaOid == LabelOid[cfg.code]
    IN  IF CodeKeyOidAccepted(lOptigaOid, pucData.len)
        THEN SaveWrite(lOptigaOid, pucData, eAwsCodeSigningKey)
        ELSE SaveNoWrite(eInvalidHandle)

\* The results of the function for the branch the label comparisons take;
\* the comparisons are made only when the size is accepted.
SaveObject(pucData, branch) ==
    IF SaveSizeAccepted(pucData.len)
    THEN CASE branch = "cert" -> SaveCertificate(pucData)
           [] branch = "priv" -> SavePrivateKey
           [] branch = "pub"  -> SavePublicKey(pucData)
           [] branch = "code" -> SaveCodeKey(pucData)
           [] OTHER           -> SaveNoWrite(eInvalidHandle)
    ELSE SaveNoWrite(eInvalidHandle)

----------------
(* PKCS11_PAL_FindObject *)

FindObject(branch) ==
    CASE branch = "cert" -> eAwsDeviceCertificate
      [] branch = "priv" -> eAwsDevicePrivateKey
      [] branch = "pub"  -> eAwsDevicePublicKey
      [] branch = "code" -> eAwsCodeSigningKey
      [] OTHER           -> eInvalidHandle

----------------------------------------------------------------------------
(* pvPortMalloc and vPortFree *)

Blocks == 1..MaxBufs

\* what pvPortMalloc can return: a block that is not in use, or NULL
PortMalloc(h) ==
    {NULL} \cup (IF Blocks \ h = {} THEN {}
                 ELSE {CHOOSE b \in Blocks \ h : \A c \in Blocks \ h : b <= c})

\* The heaps vPortFree( pv ) can leave.  Freeing a block that is not in
\* use corrupts the allocator: any block in use may be lost with it.
PortFree(h, pv) ==
    IF pv = NULL THEN {h}
    ELSE IF pv \in h THEN {h \ {pv}}
    ELSE {h} \cup {h \ {q} : q \in h}

----------------------------------------------------------------------------
(* PKCS11_PAL_GetObjectValue *)

\* faulty variant of GetSwitch: the private key handle resolved like the others
GetSwitch_PrivateKeyRead(xHandle) ==
    CASE xHandle = eAwsDeviceCertificate ->
            [oid |-> LabelOid[cfg.cert], ret |-> CKR_OK]
      [] xHandle = eAwsDevicePublicKey ->
            [oid |-> LabelOid[cfg.pub], ret |-> CKR_OK]
      [] xHandle = eAwsCodeSigningKey ->
            [oid |-> LabelOid[cfg.code], ret |-> CKR_OK]
      [] xHandle = eAwsDevicePrivateKey ->
            [oid |-> LabelOid[cfg.priv], ret |-> CKR_OK]
      [] OTHER ->
            [oid |-> 0, ret |-> CKR_KEY_HANDLE_INVALID]

\* the switch on the handle: the OID and the return value it leaves
GetSwitch(xHandle) ==
    CASE xHandle = eAwsDeviceCertificate ->
            [oid |-> LabelOid[cfg.cert], ret |-> CKR_OK]
      [] xHandle = eAwsDevicePublicKey ->
            [oid |-> LabelOid[cfg.pub], ret |-> CKR_OK]
      [] xHandle = eAwsCodeSigningKey ->
            [oid |-> LabelOid[cfg.code], ret |-> CKR_OK]
      [] OTHER ->
            [oid |-> 0, ret |-> CKR_KEY_HANDLE_INVALID]

\* the condition guarding the read (pulDataSize is never NULL here)
ReadAccepted(lOptigaOid, pucData) ==
    /\ 0 # lOptigaOid
    /\ USHRT_MAX > lOptigaOid
    /\ NULL # pucData

\* xOffset = 0
ReadOffset == 0

GetResult(ulReturn, pucData, ulDataSize, out, cmds) ==
    [ret |-> ulReturn, ptr |-> pucData, size |-> ulDataSize, out |-> out,
     cmds |-> cmds, isPrivate |-> CK_FALSE]

\* the outputs after a read that failed
GetReadFailed(cmds) == GetResult(CKR_KEY_HANDLE_INVALID, NULL, 0, NoData, cmds)

\* optiga_util_read_data( lOptigaOid, xOffset, *ppucData, pulDataSize ) and
\* what follows it, for each status xReturn the device can answer with
GetRead(lOptigaOid, ulReturn, pucData) ==
    LET oid == ToUint16(lOptigaOid)
        got == OptigaReadData(slots, oid, READ_BUFFER_SIZE)
    IN  { IF OPTIGA_LIB_SUCCESS # xReturn
          THEN GetReadFailed(<<ReadCmd(oid, ReadOffset, READ_BUFFER_SIZE, NoData, xReturn)>>)
          ELSE GetResult(ulReturn, pucData, got.len, got,
                         <<ReadCmd(oid, ReadOffset, READ_BUFFER_SIZE, got, xReturn)>>)
          : xReturn \in DeviceStatuses }

\* the outputs when no read is issued: the block as pvPortMalloc returned it
GetNoRead(ulReturn, pucData) ==
    { GetResult(ulReturn, pucData, READ_BUFFER_SIZE,
                IF pucData = NULL THEN NoData ELSE Indeterminate(READ_BUFFER_SIZE),
                <<>>) }

\* the results of the function, for the block pvPortMalloc returned
GetObjectValue(xHandle, pucData) ==
    LET sw == GetSwitch(xHandle)
    IN  IF ReadAccepted(sw.oid, pucData)
        THEN GetRead(sw.oid, sw.ret, pucData)
        ELSE GetNoRead(sw.ret, pucData)

----------------------------------------------------------------------------
(* PKCS11_PAL_GetObjectValueCleanup *)

\* faulty variant of GetObjectValueCleanup: no call of vPortFree, as the comment
\* in the function body has it
GetObjectValueCleanup_NoFree(h, pucData) == {h}

\* vPortFree( pucData ): the heaps the call can leave
GetObjectValueCleanup(h, pucData) == PortFree(h, pucData)

----------------
(* The caller's inputs. *)

\* the label buffers a caller passes: each configured label, the certificate
\* label followed by one more byte, the public key label cut short of its
\* NUL, and a label that is none of the four
LabelInputs ==
    LET own == {cfg.cert, cfg.priv, cfg.pub, cfg.code}
    IN  {LabelBytes(l) : l \in own}
          \cup {LabelBytes(cfg.cert) \o <<"x">>, cfg.pub, <<"z", NUL>>}

\* the handles a caller passes: the enumeration and one value outside it
HandleInputs == eInvalidHandle..(eAwsCodeSigningKey + 1)

----------------------------------------------------------------------------
(* The state machine. *)

Init ==
    /\ cfg \in Configs
    /\ slots = [oid \in SlotIds |-> NoData]
    /\ heap = {}
    /\ known = {}
    /\ last = NoCall

PKCS11_PAL_SaveObject ==
    \E buf \in LabelInputs, pucData \in Payloads :
        \E branch \in LabelBranches(buf) :
            \E r \in SaveObject(pucData, branch) :
                /\ slots' = r.slots
                /\ last' = [NoCall EXCEPT !.op = "Save", !.label = buf,
                                          !.length = Len(buf), !.data = pucData,
                                          !.ret = r.handle, !.cmds = r.cmds,
                                          !.heapBefore = heap]
                /\ UNCHANGED <<cfg, heap, known>>

PKCS11_PAL_FindObject ==
    \E buf \in LabelInputs :
        \E branch \in LabelBranches(buf) :
            /\ last' = [NoCall EXCEPT !.op = "Find", !.label = buf,
                                      !.length = Len(buf),
                                      !.ret = FindObject(branch),
                                      !.heapBefore = heap]
            /\ UNCHANGED <<cfg, slots, heap, known>>

PKCS11_PAL_GetObjectValue ==
    \E xHandle \in HandleInputs, pucData \in PortMalloc(heap) :
        \E r \in GetObjectValue(xHandle, pucData) :
            /\ heap' = heap \cup ({pucData} \ {NULL})
            /\ known' = known \cup ({r.ptr} \ {NULL})
            /\ last' = [NoCall EXCEPT !.op = "Get", !.handle = xHandle,
                                      !.ret = r.ret, !.cmds = r.cmds,
                                      !.ptr = r.ptr, !.size = r.size,
                                      !.isPrivate = r.isPrivate, !.out = r.out,
                                      !.alloc = pucData, !.heapBefore = heap]
            /\ UNCHANGED <<cfg, slots>>

PKCS11_PAL_GetObjectValueCleanup ==
    \E pucData \in {NULL} \cup known :
        \E h \in GetObjectValueCleanup(heap, pucData) :
            /\ heap' = h
            /\ last' = [NoCall EXCEPT !.op = "Cleanup", !.ptr = pucData,
                                      !.badFree = (pucData # NULL /\ pucData \notin heap),
                                      !.heapBefore = heap]
            /\ UNCHANGED <<cfg, slots, known>>

Next ==
    \/ PKCS11_PAL_SaveObject
    \/ PKCS11_PAL_FindObject
    \/ PKCS11_PAL_GetObjectValue
    \/ PKCS11_PAL_GetObjectValueCleanup

Spec == Init /\ [][Next]_vars

----------------------------------------------------------------------------
(* Vocabulary of the properties. *)

\* the three labels SaveObject writes to the device, with their handles
WritableKinds == {"cert", "pub", "code"}

KindLabel(kind) ==
    CASE kind = "cert" -> cfg.cert
      [] kind = "priv" -> cfg.priv
      [] kind = "pub"  -> cfg.pub
      [] kind = "code" -> cfg.code

KindHandle(kind) ==
    CASE kind = "cert" -> eAwsDeviceCertificate
      [] kind = "priv" -> eAwsDevicePrivateKey
      [] kind = "pub"  -> eAwsDevicePublicKey
      [] kind = "code" -> eAwsCodeSigningKey

\* the caller's label is byte-equal to the recognized label: same length, same bytes
IsLabel(kind) == last.label = LabelBytes(KindLabel(kind))

Recognized == \E kind \in {"cert", "priv", "pub", "code"} : IsLabel(kind)

\* the location parsed from a label is nonzero and fits in unsigned 16 bits
LocationInRange(kind) == LabelOid[KindLabel(kind)] \in 1..USHRT_MAX

----------------------------------------------------------------------------
(* C1 *)

\* C1: FindObject returns the handle of each of the four recognized labels,
\* returns eInvalidHandle for every label that is not byte-equal (same length,
\* same bytes) to one of the four, a label with a recognized label as a prefix
\* included, and issues no device command.
C1_FindExactMatch ==
    last.op = "Find" =>
        /\ \A kind \in {"cert", "priv", "pub", "code"} :
               IsLabel(kind) => last.ret = KindHandle(kind)
        /\ ~Recognized => last.ret = eInvalidHandle
        /\ last.cmds = <<>>

----------------------------------------------------------------------------
(* C2 *)

\* C2: SaveObject with the certificate, public key or code verification key
\* label, a payload of at most 2048 bytes and a location in 1..65535 issues
\* exactly one erase-and-write at offset 0 to that location with the full
\* payload, and returns the label's handle when the write succeeds.
C2_SaveWritesOnce ==
    \A kind \in WritableKinds :
        ( /\ last.op = "Save"
          /\ IsLabel(kind)
          /\ last.data.len <= pkcs11OBJECT_CERTIFICATE_MAX_SIZE
          /\ LocationInRange(kind) )
        => /\ Len(last.cmds) = 1
           /\ \E st \in DeviceStatuses :
                 last.cmds[1] = WriteCmd(LabelOid[KindLabel(kind)],
                                         OPTIGA_UTIL_ERASE_AND_WRITE, 0,
                                         last.data, st)
           /\ last.cmds[1].status = OPTIGA_LIB_SUCCESS => last.ret = KindHandle(kind)

----------------------------------------------------------------------------
(* C3 *)

\* C3 as claimed: SaveObject with the private key label returns
\* eAwsDevicePrivateKey for every payload length, lengths above 2048
\* included, issues no device command and leaves every slot unchanged.
C3_PrivateKeyAnyLength ==
    [][ (last'.op = "Save" /\ last'.label = LabelBytes(cfg.priv))
        => /\ last'.ret = eAwsDevicePrivateKey
           /\ last'.cmds = <<>>
           /\ slots' = slots ]_vars

\* C3 amended: SaveObject with the private key label issues no device
\* command and leaves every slot unchanged for every payload; it returns
\* eAwsDevicePrivateKey when the payload length is at most 2048 and
\* eInvalidHandle when it is larger.
C3_PrivateKeyUpToMaxSize ==
    [][ (last'.op = "Save" /\ last'.label = LabelBytes(cfg.priv))
        => /\ last'.ret = IF last'.data.len <= pkcs11OBJECT_CERTIFICATE_MAX_SIZE
                          THEN eAwsDevicePrivateKey
                          ELSE eInvalidHandle
           /\ last'.cmds = <<>>
           /\ slots' = slots ]_vars

\* a save under the private key label of a payload of the largest accepted
\* size has returned the private key handle
C3_Witness ==
    /\ last.op = "Save"
    /\ IsLabel("priv")
    /\ last.data.len = pkcs11OBJECT_CERTIFICATE_MAX_SIZE
    /\ last.ret = eAwsDevicePrivateKey
    /\ last.cmds = <<>>

----------------------------------------------------------------------------
(* C4 *)

\* C4: SaveObject refuses every write that violates a size bound: when the
\* payload is longer than 2048, or the location parsed from the label is zero
\* or does not fit in unsigned 16 bits, it returns eInvalidHandle, issues no
\* device command and leaves the slots unchanged.
C4_SaveRefusesOutOfBounds ==
    [][ ( /\ last'.op = "Save"
          /\ \/ last'.data.len > pkcs11OBJECT_CERTIFICATE_MAX_SIZE
             \/ \E kind \in WritableKinds :
                   /\ last'.label = LabelBytes(KindLabel(kind))
                   /\ ~LocationInRange(kind) )
        => /\ last'.ret = eInvalidHandle
           /\ last'.cmds = <<>>
           /\ slots' = slots ]_vars

----------------------------------------------------------------------------
(* C5 *)

ReadableHandles == {eAwsDeviceCertificate, eAwsDevicePublicKey, eAwsCodeSigningKey}

\* C5: GetObjectValue with the private key handle, eInvalidHandle or a
\* handle outside the enumeration returns CKR_KEY_HANDLE_INVALID and issues no
\* device command; every read command is issued by a GetObjectValue call for
\* the certificate, public key or code verification key handle.
C5_NoReadForPrivateKey ==
    /\ (last.op = "Get" /\ last.handle \notin ReadableHandles)
           => (last.ret = CKR_KEY_HANDLE_INVALID /\ last.cmds = <<>>)
    /\ \A i \in 1..Len(last.cmds) :
           last.cmds[i].kind = "read"
               => (last.op = "Get" /\ last.handle \in ReadableHandles)

\* GetObjectValue was called with the private key handle and had a buffer
C5_Witness ==
    /\ last.op = "Get"
    /\ last.handle = eAwsDevicePrivateKey
    /\ last.alloc # NULL
    /\ last.ret = CKR_KEY_HANDLE_INVALID

----------------------------------------------------------------------------
(* C6 *)

\* C6: a GetObjectValue that fails leaves no payload buffer allocated: the
\* set of live heap buffers is as it was before the call and the output
\* pointer is NULL.
C6_FailedGetLeavesNoBuffer ==
    (last.op = "Get" /\ last.ret # CKR_OK)
        => /\ heap = last.heapBefore
           /\ last.ptr = NULL

----------------------------------------------------------------------------
(* C7 *)

\* C7: a GetObjectValue that follows a successful SaveObject of a readable
\* object, is given the handle that save returned and whose device read
\* succeeds, returns CKR_OK, the saved bytes and length, read from the
\* location the save wrote to, and isPrivate = CK_FALSE.
C7_SaveGetRoundTrip ==
    [][ ( /\ last.op = "Save"
          /\ last.ret \in ReadableHandles
          /\ last'.op = "Get"
          /\ last'.handle = last.ret
          /\ last'.cmds # <<>>
          /\ last'.cmds[1].status = OPTIGA_LIB_SUCCESS )
        => /\ last'.ret = CKR_OK
           /\ last'.out = last.data
           /\ last'.size = last.data.len
           /\ last'.cmds[1].oid = last.cmds[1].oid
           /\ last'.isPrivate = CK_FALSE ]_vars

----------------------------------------------------------------------------
(* C8 *)

----------------------------------------------------------------------------
(* C9 *)

----------------------------------------------------------------------------
(* C10 *)

\* the location GetObjectValue reads for a readable handle
HandleLabel(xHandle) ==
    CASE xHandle = eAwsDeviceCertificate -> cfg.cert
      [] xHandle = eAwsDevicePublicKey   -> cfg.pub
      [] xHandle = eAwsCodeSigningKey    -> cfg.code

\* C10: GetObjectValue returns CKR_OK only if the buffer was allocated and
\* exactly one read at the handle's location was issued and succeeded, and
\* then returns that buffer with the length the device reported and
\* isPrivate = CK_FALSE; when the allocation fails, or the location of the
\* handle is zero or out of range, it does not return CKR_OK.
C10_GetOkOnlyAfterRead ==
    last.op = "Get" =>
        /\ last.ret = CKR_OK
               => /\ last.alloc # NULL
                  /\ last.handle \in ReadableHandles
                  /\ Len(last.cmds) = 1
                  /\ last.cmds[1].kind = "read"
                  /\ last.cmds[1].oid = ToUint16(LabelOid[HandleLabel(last.handle)])
                  /\ last.cmds[1].status = OPTIGA_LIB_SUCCESS
                  /\ last.ptr = last.alloc
                  /\ last.size = last.cmds[1].data.len
                  /\ last.isPrivate = CK_FALSE
        /\ last.alloc = NULL => last.ret # CKR_OK

====
